---- MODULE Spec2Model ----
(***************************************************************************)
(* chrome-pandoc: the background service worker (src/background.js) and    *)
(* the conversion pipeline (src/pandoc.js).                                *)
(*                                                                         *)
(* JavaScript strings are modelled as sequences of tokens, so that string  *)
(* concatenation is sequence concatenation.  A JavaScript value that may   *)
(* be a string, undefined or null is a record [type, val].                 *)
(***************************************************************************)
EXTENDS Integers, Sequences, FiniteSets, TLC

(* ------------------------------ bounds -------------------------------- *)

\* Pipeline invocations started in one behaviour of SpecPipeline.
MaxInv == 2

\* Pipeline invocations started in one behaviour of Spec.
MaxCfgInv == 1

\* Storage writes (each followed by a storage.onChanged event) in one behaviour.
MaxChanges == 2

\* Storage writes in one behaviour of SpecInFlight.
MaxFlightChanges == 1

\* Ranges of a page selection.
MaxRanges == 2

\* Ports that connect in one behaviour of SpecConnect.
MaxPorts == 3

TabIds == {1, 2}

FrameIds == {0, 1}

(* --------------------------- JavaScript values ------------------------- *)

Absent == "absent"

Str(tokens) == [type |-> "string", val |-> tokens]

Undefined == [type |-> "undefined", val |-> <<>>]

Null == [type |-> "null", val |-> <<>>]

\* ToString of the ECMAScript specification, as String.prototype.concat
\* applies it to its argument.
JSToString(v) ==
  CASE v.type = "string" -> v.val
    [] v.type = "undefined" -> <<"undefined">>
    [] v.type = "null" -> <<"null">>

Digits == <<"0", "1", "2", "3", "4", "5", "6", "7", "8", "9">>

NaN == -1

RECURSIVE NumberToString(_)
\* index.toString()
NumberToString(n) ==
  IF n < 10 THEN <<Digits[n + 1]>>
  ELSE NumberToString(n \div 10) \o <<Digits[(n % 10) + 1]>>

IsDigit(ch) == \E d \in 1..10 : Digits[d] = ch

DigitValue(ch) == (CHOOSE d \in 1..10 : Digits[d] = ch) - 1

RECURSIVE ParseDigits(_, _)
ParseDigits(s, acc) ==
  IF s = <<>> \/ ~IsDigit(Head(s)) THEN acc
  ELSE ParseDigits(Tail(s), (acc * 10) + DigitValue(Head(s)))

\* parseInt(string, 10): the leading decimal digits, NaN when there are none.
parseInt(s) ==
  IF s = <<>> \/ ~IsDigit(Head(s)) THEN NaN ELSE ParseDigits(s, 0)

(* ------------------------------ converters ----------------------------- *)

ConvMarkdown ==
  [name |-> "Markdown", command |-> "pandoc",
   args |-> <<"-f", "html", "-t", "markdown">>]

ConvOrg ==
  [name |-> "Org", command |-> "pandoc",
   args |-> <<"-f", "html", "-t", "org">>]

\* The converter lists a user may have stored.
ConverterLists ==
  {<<>>, <<ConvMarkdown>>, <<ConvOrg, ConvMarkdown>>}

\* converters[index]: a one-element sequence, or <<>> for undefined.
ArrayGet(array, index) ==
  IF (index + 1) \in DOMAIN array THEN <<array[index + 1]>> ELSE <<>>

(* ------------------------------ click data ----------------------------- *)

LinkUrl == "https://link"

SrcUrl == "https://src"

PageUrl == "https://page"

SelectionText == "hi"

MediaTypes == {"image", "video", "audio", Absent}

\* chrome.contextMenus.OnClickData, restricted to the keys getClickedElement
\* reads.  A key that is not in the object holds Absent.
ClickContexts ==
  {[linkUrl |-> l, mediaType |-> m,
    srcUrl |-> IF m = Absent THEN Absent ELSE SrcUrl,
    selectionText |-> s, pageUrl |-> p] :
      l \in {LinkUrl, Absent}, m \in MediaTypes,
      s \in {SelectionText, Absent}, p \in {PageUrl, Absent}}

\* { selectionText: true }, the click data onAction passes.
ActionClickData ==
  [linkUrl |-> Absent, mediaType |-> Absent, srcUrl |-> Absent,
   selectionText |-> "true", pageUrl |-> Absent]

LinkOnlyClickData ==
  [linkUrl |-> LinkUrl, mediaType |-> Absent, srcUrl |-> Absent,
   selectionText |-> Absent, pageUrl |-> Absent]

SelectionClickData ==
  [linkUrl |-> Absent, mediaType |-> Absent, srcUrl |-> Absent,
   selectionText |-> SelectionText, pageUrl |-> PageUrl]

\* The click data a menu click carries in Spec and SpecPipeline.
MenuClickContexts == {LinkOnlyClickData, SelectionClickData}

\* The menu clicks of Spec and SpecPipeline: the click data and the frame of
\* the click.
MenuClicks ==
  {[clickedData |-> LinkOnlyClickData, frameId |-> 0],
   [clickedData |-> SelectionClickData, frameId |-> 1]}

(* -------------------------------- pages -------------------------------- *)

\* The serialized contents of one selection range.
Fragments == {<<"<b>", "x", "</b>">>, <<"y">>}

RECURSIVE SeqsUpTo(_, _)
SeqsUpTo(S, n) ==
  IF n = 0 THEN {<<>>}
  ELSE LET shorter == SeqsUpTo(S, n - 1)
       IN shorter \cup {Append(q, x) : q \in {r \in shorter : Len(r) = n - 1}, x \in S}

DocumentHTML == <<"<html>", "doc", "</html>">>

\* What getClickedElement reads of a frame: the ranges of window.getSelection()
\* and document.documentElement.
PageStates ==
  {[ranges |-> r, documentElement |-> DocumentHTML] : r \in SeqsUpTo(Fragments, MaxRanges)}

DefaultPage ==
  [f \in FrameIds |->
    IF f = 0
    THEN [ranges |-> <<<<"<b>", "x", "</b>">>, <<"y">>>>, documentElement |-> DocumentHTML]
    ELSE [ranges |-> <<<<"y">>>>, documentElement |-> DocumentHTML]]

VARIABLES
  page,          \* frame id -> page state
  selCall,       \* SpecSelector: the last call of getClickedElement, <<>> before it
  selPrev,       \* SpecSelector: the call before the last, when the last repeats it
  pandocModule,  \* the file whose definition of pandoc runs
  storageCache,  \* storageCache.converters
  loaded,        \* the callback of chrome.storage.sync.get has run
  syncStorage,   \* converters in chrome.storage.sync: <<list>>, or <<>> when unset
  menu,          \* the items of chrome.contextMenus
  events,        \* storage.onChanged events not yet dispatched
  changesLeft,   \* storage writes still allowed
  invLeft,       \* triggers still allowed
  invs,          \* pipeline invocations, in the order they were started
  clipboard,     \* the system clipboard: <<text>>, or <<>> when never written
  lastWriter,    \* index in invs of the invocation that wrote the clipboard last, 0 if none
  backgroundModule,  \* the file whose definition of onConnect runs
  installs,      \* the calls of onInstalled, in the order they were made
  ports          \* the ports that connected, in the order they did

\* The variables of the installation handlers and of the ports.
lifecycleVars == <<backgroundModule, installs, ports>>

vars ==
  <<page, selCall, selPrev, pandocModule, storageCache, loaded, syncStorage, menu, events,
    changesLeft, invLeft, invs, clipboard, lastWriter, backgroundModule, installs, ports>>

(* --------------------------- Element Selector -------------------------- *)

OuterHTMLAnchorImage(href, src) ==
  <<"<a href=", href, ">", "<img src=", src, ">", "</a>">>

OuterHTMLAnchorText(href, text) == <<"<a href=", href, ">", text, "</a>">>

OuterHTMLMedia(tag, src) == <<"<", tag, " src=", src, ">">>

RECURSIVE AppendFragmentsReversed(_, _, _)
\* append with each fragment put before those already in the template.
AppendFragmentsReversed(ranges, index, html) ==
  IF index > Len(ranges) THEN html
  ELSE AppendFragmentsReversed(ranges, index + 1, ranges[index] \o html)

RECURSIVE AppendFragments(_, _, _)
\* templateElement.content.append(...documentFragments), then innerHTML:
\* the fragments of ranges index..rangeCount-1, in that order.
AppendFragments(ranges, index, html) ==
  IF index > Len(ranges) THEN html
  ELSE AppendFragments(ranges, index + 1, html \o ranges[index])

\* range.extractContents() in the place of cloneContents(): the contents
\* leave the range.
extractContents(pg, index) ==
  [fragment |-> pg.ranges[index], page |-> [pg EXCEPT !.ranges[index] = <<>>]]

\* selection.getRangeAt(index).cloneContents(): a copy of the contents of the
\* range; the range and the document keep theirs.
cloneContents(pg, index) == [fragment |-> pg.ranges[index], page |-> pg]

RECURSIVE documentFragments(_, _, _)
\* Array.from({ length: selection.rangeCount }, (_, index) =>
\*   selection.getRangeAt(index).cloneContents()): the fragments, and the page
\* as the calls leave it.
documentFragments(pg, index, fragments) ==
  IF index > Len(pg.ranges) THEN [fragments |-> fragments, page |-> pg]
  ELSE LET cloned == cloneContents(pg, index)
       IN documentFragments(cloned.page, index + 1, Append(fragments, cloned.fragment))

\* The condition of each case of the switch (true).
CaseMatches(branch, clickedData) ==
  CASE branch = "linkImage" ->
         clickedData.linkUrl # Absent /\ clickedData.mediaType = "image"
    [] branch = "linkSelection" ->
         clickedData.linkUrl # Absent /\ clickedData.selectionText # Absent
    [] branch = "video" -> clickedData.mediaType = "video"
    [] branch = "audio" -> clickedData.mediaType = "audio"
    [] branch = "image" -> clickedData.mediaType = "image"
    [] branch = "selection" -> clickedData.selectionText # Absent
    [] branch = "page" -> clickedData.pageUrl # Absent

\* getClickedElement with the cases of the switch in another order: the
\* media cases before the link cases.
getClickedElementMediaFirst(clickedData, pg) ==
  IF CaseMatches("video", clickedData)
  THEN [branch |-> "video", result |-> Str(OuterHTMLMedia("video", clickedData.srcUrl))]
  ELSE IF CaseMatches("audio", clickedData)
  THEN [branch |-> "audio", result |-> Str(OuterHTMLMedia("audio", clickedData.srcUrl))]
  ELSE IF CaseMatches("image", clickedData)
  THEN [branch |-> "image", result |-> Str(OuterHTMLMedia("img", clickedData.srcUrl))]
  ELSE IF CaseMatches("linkImage", clickedData)
  THEN [branch |-> "linkImage",
        result |-> Str(OuterHTMLAnchorImage(clickedData.linkUrl, clickedData.srcUrl))]
  ELSE IF CaseMatches("linkSelection", clickedData)
  THEN [branch |-> "linkSelection",
        result |-> Str(OuterHTMLAnchorText(clickedData.linkUrl, clickedData.selectionText))]
  ELSE IF CaseMatches("selection", clickedData)
  THEN [branch |-> "selection", result |-> Str(AppendFragments(pg.ranges, 1, <<>>))]
  ELSE IF CaseMatches("page", clickedData)
  THEN [branch |-> "page", result |-> Str(pg.documentElement)]
  ELSE [branch |-> "none", result |-> Undefined]

\* getClickedElement: the first case of the switch whose condition is true
\* returns; when none is, the function returns undefined.
getClickedElement(clickedData, pg) ==
  IF CaseMatches("linkImage", clickedData)
  THEN [branch |-> "linkImage",
        result |-> Str(OuterHTMLAnchorImage(clickedData.linkUrl, clickedData.srcUrl))]
  ELSE IF CaseMatches("linkSelection", clickedData)
  THEN [branch |-> "linkSelection",
        result |-> Str(OuterHTMLAnchorText(clickedData.linkUrl, clickedData.selectionText))]
  ELSE IF CaseMatches("video", clickedData)
  THEN [branch |-> "video", result |-> Str(OuterHTMLMedia("video", clickedData.srcUrl))]
  ELSE IF CaseMatches("audio", clickedData)
  THEN [branch |-> "audio", result |-> Str(OuterHTMLMedia("audio", clickedData.srcUrl))]
  ELSE IF CaseMatches("image", clickedData)
  THEN [branch |-> "image", result |-> Str(OuterHTMLMedia("img", clickedData.srcUrl))]
  ELSE IF CaseMatches("selection", clickedData)
  THEN [branch |-> "selection", result |-> Str(AppendFragments(pg.ranges, 1, <<>>))]
  ELSE IF CaseMatches("page", clickedData)
  THEN [branch |-> "page", result |-> Str(pg.documentElement)]
  ELSE [branch |-> "none", result |-> Undefined]

\* The frame's document and selection after getClickedElement(clickedData):
\* the selection case clones the ranges, every other case builds detached
\* elements or reads document.documentElement.
PageAfter(clickedData, pg) ==
  IF getClickedElement(clickedData, pg).branch = "selection"
  THEN documentFragments(pg, 1, <<>>).page
  ELSE pg

(* ------------------------- configuration and menu ---------------------- *)

\* chrome.contextMenus.create: an item whose id is already in use is refused
\* (runtime.lastError) and the menu keeps the item it had.
ContextMenusCreate(items, item) ==
  IF \E m \in items : m.id = item.id THEN items ELSE items \cup {item}

RECURSIVE CreateFrom(_, _, _)
CreateFrom(items, converters, index) ==
  IF index >= Len(converters) THEN items
  ELSE CreateFrom(
         ContextMenusCreate(items,
           [id |-> NumberToString(index),
            title |-> <<"Copy as ", converters[index + 1].name>>]),
         converters, index + 1)

\* createMenuItems with the loop stopping one converter early.
createMenuItemsShort(items, converters) ==
  IF converters = <<>> THEN items
  ELSE CreateFrom(items, SubSeq(converters, 1, Len(converters) - 1), 0)

\* createMenuItems: one item per entry of storageCache.converters.
createMenuItems(items, converters) == CreateFrom(items, converters, 0)

\* chrome.contextMenus.removeAll
ContextMenusRemoveAll(items) == {}

AreaNames == {"local", "sync"}

\* A storage.onChanged event whose changes hold the key converters with a
\* new value.
ChangeEvent(areaName, converters) ==
  [areaName |-> areaName, hasKey |-> TRUE, newValue |-> <<converters>>]

\* The options page (or any other writer) stores a converter list; the browser
\* queues the storage.onChanged event.
StorageSet(areaName, converters) ==
  /\ changesLeft > 0
  /\ areaName = "sync" => syncStorage # <<converters>>
  /\ changesLeft' = changesLeft - 1
  /\ syncStorage' = IF areaName = "sync" THEN <<converters>> ELSE syncStorage
  /\ events' = Append(events, ChangeEvent(areaName, converters))
  /\ UNCHANGED <<lifecycleVars, page, selCall, selPrev, pandocModule,
                 storageCache, loaded, menu, invLeft,
                 invs, clipboard, lastWriter>>

\* The callback of chrome.storage.sync.get: Object.assign(storageCache, options).
StorageLoaded ==
  /\ ~loaded
  /\ loaded' = TRUE
  /\ storageCache' = IF syncStorage = <<>> THEN storageCache ELSE syncStorage[1]
  /\ UNCHANGED <<lifecycleVars, page, selCall, selPrev, pandocModule,
                 syncStorage, menu, events, changesLeft,
                 invLeft, invs, clipboard, lastWriter>>

\* The new cache of onOptionsChange with the assignment left out.
NewCacheStale(event, cache) == cache

\* The new cache of onOptionsChange without the switch on areaName.
NewCacheAnyArea(event, cache) ==
  IF event.hasKey /\ event.newValue # <<>> THEN event.newValue[1] ELSE cache

\* storageCache.converters after onOptionsChange(changes, areaName).
NewCache(event, cache) ==
  IF event.areaName \in {"local", "sync"} /\ event.hasKey /\ event.newValue # <<>>
  THEN event.newValue[1]
  ELSE cache

\* The menu of onOptionsChange with removeAll left out.
NewMenuNoRemove(event, items) ==
  IF event.areaName \in {"local", "sync"} /\ event.hasKey /\ event.newValue # <<>>
  THEN createMenuItems(items, event.newValue[1])
  ELSE items

\* The menu after onOptionsChange(changes, areaName): removeAll, then
\* createMenuItems over the new cache.
NewMenu(event, items) ==
  IF event.areaName \in {"local", "sync"} /\ event.hasKey /\ event.newValue # <<>>
  THEN createMenuItems(ContextMenusRemoveAll(items), event.newValue[1])
  ELSE items

\* onOptionsChange, dispatched for the oldest queued event.  When changes has
\* no key converters, reading changes.converters.newValue throws and the
\* handler ends there.
onOptionsChange ==
  /\ events # <<>>
  /\ events' = Tail(events)
  /\ storageCache' = NewCache(Head(events), storageCache)
  /\ menu' = NewMenu(Head(events), menu)
  /\ UNCHANGED <<lifecycleVars, page, selCall, selPrev, pandocModule,
                 loaded, syncStorage, changesLeft,
                 invLeft, invs, clipboard, lastWriter>>

\* Every storage area an onChanged event may name.
AllAreaNames == {"local", "sync", "managed"}

\* The key converters is removed from a storage area: the change has an
\* oldValue and no newValue.
StorageRemove(areaName) ==
  /\ changesLeft > 0
  /\ areaName = "sync" => syncStorage # <<>>
  /\ changesLeft' = changesLeft - 1
  /\ syncStorage' = IF areaName = "sync" THEN <<>> ELSE syncStorage
  /\ events' = Append(events, [areaName |-> areaName, hasKey |-> TRUE, newValue |-> <<>>])
  /\ UNCHANGED <<lifecycleVars, page, selCall, selPrev, pandocModule,
                 storageCache, loaded, menu, invLeft, invs, clipboard, lastWriter>>

\* Another key of a storage area is written: changes has no key converters.
StorageSetOther(areaName) ==
  /\ changesLeft > 0
  /\ changesLeft' = changesLeft - 1
  /\ events' = Append(events, [areaName |-> areaName, hasKey |-> FALSE, newValue |-> <<>>])
  /\ UNCHANGED <<lifecycleVars, page, selCall, selPrev, pandocModule,
                 storageCache, loaded, syncStorage, menu, invLeft, invs, clipboard,
                 lastWriter>>

(* ------------------------- installation and update --------------------- *)

\* details.reason of runtime.onInstalled.
InstallReasons == {"install", "update", "chrome_update"}

\* The converters of config.json.
Defaults == <<ConvMarkdown>>

\* onInstalled(details): onInstall() or onUpdate() runs to its fetch, then
\* createMenuItems() adds the items of the cache as it is now.  The event
\* fires once in the life of the service worker.
onInstalled(reason) ==
  /\ installs = <<>>
  /\ installs' =
       <<[reason |-> reason,
          pc |-> IF reason \in {"install", "update"} THEN "fetch" ELSE "done",
          before |-> <<>>,
          wrote |-> <<>>]>>
  /\ menu' = createMenuItems(menu, storageCache)
  /\ UNCHANGED <<backgroundModule, ports, page, selCall, selPrev, pandocModule,
                 storageCache, loaded, syncStorage, events, changesLeft, invLeft, invs,
                 clipboard, lastWriter>>

\* The converters onInstall stores: chrome.storage.sync.set(defaults).
StoredByInstall(defaults, cache) == defaults

\* The converters onUpdate stores: { ...defaults, ...storageCache }, where
\* storageCache always has the key converters.
StoredByUpdate(defaults, cache) == cache

\* fetch('config.json') and response.json() resolve: the last callback
\* calls chrome.storage.sync.set, which raises onChanged when the value
\* changes.
FetchResolved ==
  /\ installs # <<>>
  /\ installs[1].pc = "fetch"
  /\ LET converters ==
           IF installs[1].reason = "install"
           THEN StoredByInstall(Defaults, storageCache)
           ELSE StoredByUpdate(Defaults, storageCache)
     IN /\ syncStorage' = <<converters>>
        /\ events' = IF syncStorage = <<converters>> THEN events
                     ELSE Append(events, ChangeEvent("sync", converters))
        /\ installs' = [installs EXCEPT ![1].pc = "done",
                                        ![1].before = syncStorage,
                                        ![1].wrote = <<converters>>]
  /\ UNCHANGED <<backgroundModule, ports, page, selCall, selPrev, pandocModule,
                 storageCache, loaded, menu, changesLeft, invLeft, invs, clipboard,
                 lastWriter>>

\* fetch or response.json() rejects: nothing is stored.
FetchRejected ==
  /\ installs # <<>>
  /\ installs[1].pc = "fetch"
  /\ installs' = [installs EXCEPT ![1].pc = "failed"]
  /\ UNCHANGED <<backgroundModule, ports, page, selCall, selPrev, pandocModule,
                 storageCache, loaded, syncStorage, menu, events, changesLeft, invLeft,
                 invs, clipboard, lastWriter>>

(* ------------------------------ connections ---------------------------- *)

BackgroundModules == {"src/background.js", "README.md"}

\* port.name: the two pages of the extension, another name, no name.
PortNames == {"options", "manual", "popup", ""}

\* The worker the switch of onConnect hands the port to: src/background.js
\* has the case 'options'.
WorkerOfBackground(name) ==
  IF name = "options" THEN "optionsWorker" ELSE "none"

\* The background.js of README.md has the cases 'options' and 'manual'.
WorkerOfReadme(name) ==
  CASE name = "options" -> "optionsWorker"
    [] name = "manual" -> "manualWorker"
    [] OTHER -> "none"

WorkerOf(name) ==
  IF backgroundModule = "README.md" THEN WorkerOfReadme(name)
  ELSE WorkerOfBackground(name)

\* The message of the default case.
UnknownConnection(name) ==
  [type |-> "error", message |-> <<"Unknown type of connection: ", name>>]

\* onConnect(port): the port goes to a worker, or the default case posts an
\* error message to it.
onConnect(name) ==
  /\ Len(ports) < MaxPorts
  /\ ports' = Append(ports,
       [name |-> name,
        worker |-> WorkerOf(name),
        messages |-> IF WorkerOf(name) = "none" THEN <<UnknownConnection(name)>>
                     ELSE <<>>])
  /\ UNCHANGED <<backgroundModule, installs, page, selCall, selPrev, pandocModule,
                 storageCache, loaded, syncStorage, menu, events, changesLeft, invLeft,
                 invs, clipboard, lastWriter>>

(* --------------------------- Conversion Pipeline ----------------------- *)

\* The frames chrome.scripting.executeScript runs the function in, in the
\* order of its results.
TargetFrames(injectionTarget) ==
  IF injectionTarget.allFrames THEN <<0, 1>> ELSE injectionTarget.frameIds

\* pandoc is called: it runs to its first await, the executeScript call that
\* injects getClickedElement.
pandoc(trigger, converterCommand, injectionTarget, clickedData) ==
  [trigger |-> trigger,
   converterCommand |-> converterCommand,
   injectionTarget |-> injectionTarget,
   clickedData |-> clickedData,
   pc |-> "select",
   failure |-> "",
   injectionResults |-> <<>>,
   input |-> <<>>,
   requests |-> <<>>,
   commandResult |-> <<>>,
   writeCalls |-> <<>>,
   written |-> <<>>]

\* pandoc behind a queue: it starts when no earlier invocation is at an await.
StartPandocSerial(trigger, converterCommand, injectionTarget, clickedData) ==
  /\ invLeft > 0
  /\ \A i \in DOMAIN invs : invs[i].pc \in {"done", "failed"}
  /\ invLeft' = invLeft - 1
  /\ invs' = Append(invs, pandoc(trigger, converterCommand, injectionTarget, clickedData))
  /\ UNCHANGED <<lifecycleVars, page, selCall, selPrev, pandocModule,
                 storageCache, loaded, syncStorage, menu,
                 events, changesLeft, clipboard, lastWriter>>

StartPandoc(trigger, converterCommand, injectionTarget, clickedData) ==
  /\ invLeft > 0
  /\ invLeft' = invLeft - 1
  /\ invs' = Append(invs, pandoc(trigger, converterCommand, injectionTarget, clickedData))
  /\ UNCHANGED <<lifecycleVars, page, selCall, selPrev, pandocModule,
                 storageCache, loaded, syncStorage, menu,
                 events, changesLeft, clipboard, lastWriter>>

\* onAction reading the second converter.
onActionSecond(tabId) ==
  StartPandoc(
    [handler |-> "onAction", tabId |-> tabId, menuItemId |-> <<>>, frameId |-> 0],
    ArrayGet(storageCache, 1),
    [tabId |-> tabId, allFrames |-> TRUE, frameIds |-> <<>>],
    ActionClickData)

\* onAction(tab): the first converter, all frames, { selectionText: true }.
onAction(tabId) ==
  StartPandoc(
    [handler |-> "onAction", tabId |-> tabId, menuItemId |-> <<>>, frameId |-> 0],
    ArrayGet(storageCache, 0),
    [tabId |-> tabId, allFrames |-> TRUE, frameIds |-> <<>>],
    ActionClickData)

\* onMenuItemClicked(clickedData, tab)
onMenuItemClicked(menuItemId, frameId, clickedData, tabId) ==
  StartPandoc(
    [handler |-> "onMenuItemClicked", tabId |-> tabId, menuItemId |-> menuItemId,
     frameId |-> frameId],
    ArrayGet(storageCache, parseInt(menuItemId)),
    [tabId |-> tabId, allFrames |-> FALSE, frameIds |-> <<frameId>>],
    clickedData)

\* InjectionResult.result of one frame.  executeScript hands results over as
\* JSON values: where the function returned undefined, result is null.
InjectionResult(clickedData, frameId) ==
  LET r == getClickedElement(clickedData, page[frameId]).result
  IN IF r.type = "undefined" THEN Null ELSE r

RECURSIVE reduceSeparated(_)
\* reduce with a separator between the results.
reduceSeparated(injectionResults) ==
  IF injectionResults = <<>> THEN <<>>
  ELSE reduceSeparated(SubSeq(injectionResults, 1, Len(injectionResults) - 1))
         \o <<"\n">> \o JSToString(injectionResults[Len(injectionResults)])

RECURSIVE reduce(_)
\* injectionResults.reduce((selectedText, injectionResult) =>
\*   selectedText.concat(injectionResult.result), '')
reduce(injectionResults) ==
  IF injectionResults = <<>> THEN <<>>
  ELSE reduce(SubSeq(injectionResults, 1, Len(injectionResults) - 1))
         \o JSToString(injectionResults[Len(injectionResults)])

\* The message of chrome.runtime.sendNativeMessage('shell', ...).
NativeMessage(converterCommand, input) ==
  [command |-> converterCommand.command, args |-> converterCommand.args,
   input |-> input, output |-> TRUE]

\* pandoc reading the converter from the cache when it builds the message,
\* not from its argument.
SelectResolvedReadsCache(i) ==
  /\ i \in DOMAIN invs
  /\ invs[i].pc = "select"
  /\ LET frames == TargetFrames(invs[i].injectionTarget)
         results == [k \in DOMAIN frames |->
                       InjectionResult(invs[i].clickedData, frames[k])]
         input == reduce(results)
         converterCommand ==
           IF invs[i].trigger.handler = "onAction" THEN ArrayGet(storageCache, 0)
           ELSE ArrayGet(storageCache, parseInt(invs[i].trigger.menuItemId))
     IN invs' = [invs EXCEPT ![i] =
          IF converterCommand = <<>>
          THEN [@ EXCEPT !.injectionResults = results, !.input = input,
                         !.pc = "failed", !.failure = "converterCommand"]
          ELSE [@ EXCEPT !.injectionResults = results, !.input = input,
                         !.requests = Append(@, NativeMessage(converterCommand[1], input)),
                         !.pc = "convert"]]
  /\ UNCHANGED <<lifecycleVars, page, selCall, selPrev, pandocModule,
                 storageCache, loaded, syncStorage, menu,
                 events, changesLeft, invLeft, clipboard, lastWriter>>

\* The first executeScript resolves: pandoc builds the input, then reads
\* converterCommand.command (a TypeError when converterCommand is undefined)
\* and sends the native message.
SelectResolved(i) ==
  /\ i \in DOMAIN invs
  /\ invs[i].pc = "select"
  /\ LET frames == TargetFrames(invs[i].injectionTarget)
         results == [k \in DOMAIN frames |->
                       InjectionResult(invs[i].clickedData, frames[k])]
         input == reduce(results)
     IN invs' = [invs EXCEPT ![i] =
          IF invs[i].converterCommand = <<>>
          THEN [@ EXCEPT !.injectionResults = results, !.input = input,
                         !.pc = "failed", !.failure = "converterCommand"]
          ELSE [@ EXCEPT !.injectionResults = results, !.input = input,
                         !.requests =
                           Append(@, NativeMessage(invs[i].converterCommand[1], input)),
                         !.pc = "convert"]]
  /\ UNCHANGED <<lifecycleVars, page, selCall, selPrev, pandocModule,
                 storageCache, loaded, syncStorage, menu,
                 events, changesLeft, invLeft, clipboard, lastWriter>>

\* A rejected first executeScript that is caught, pandoc going on with an
\* empty input.
SelectRejectedGoesOn(i) ==
  /\ i \in DOMAIN invs
  /\ invs[i].pc = "select"
  /\ invs[i].converterCommand # <<>>
  /\ invs' = [invs EXCEPT ![i].failure = "select",
                          ![i].requests =
                            Append(@, NativeMessage(invs[i].converterCommand[1], <<>>)),
                          ![i].pc = "convert"]
  /\ UNCHANGED <<lifecycleVars, page, selCall, selPrev, pandocModule,
                 storageCache, loaded, syncStorage, menu,
                 events, changesLeft, invLeft, clipboard, lastWriter>>

\* The first executeScript rejects (the frame cannot be scripted, the tab is
\* gone): the await throws and pandoc ends.
SelectRejected(i) ==
  /\ i \in DOMAIN invs
  /\ invs[i].pc = "select"
  /\ invs' = [invs EXCEPT ![i].pc = "failed", ![i].failure = "select"]
  /\ UNCHANGED <<lifecycleVars, page, selCall, selPrev, pandocModule,
                 storageCache, loaded, syncStorage, menu,
                 events, changesLeft, invLeft, clipboard, lastWriter>>

\* The text the converter prints for the request of invocation i.
OutputText(i) == <<"output of ", NumberToString(i)>>

\* The CommandResult values the native host may reply with to invocation i:
\* output is present when status is 0.
CommandResults(i) ==
  {[status |-> 0, output |-> Str(OutputText(i))], [status |-> 1, output |-> Undefined]}

\* The write step of src/pandoc.js: no test of the status.
WritesClipboardAlways(commandResult) == TRUE

\* The write step of the pandoc that follows background.js:
\* if (commandResult.status === 0)
WritesClipboardOnSuccess(commandResult) == commandResult.status = 0

\* Whether pandoc goes on to the executeScript call that injects
\* writeTextToClipboard.
WritesClipboard(commandResult) ==
  IF pandocModule = "src/pandoc.js"
  THEN WritesClipboardAlways(commandResult)
  ELSE WritesClipboardOnSuccess(commandResult)

\* The target of the second executeScript, with another tab's id.
WriteTargetOtherTab(injectionTarget) ==
  [tabId |-> CHOOSE t \in TabIds : t # injectionTarget.tabId]

\* target: { tabId: injectionTarget.tabId }
WriteTarget(injectionTarget) == [tabId |-> injectionTarget.tabId]

\* sendNativeMessage resolves with commandResult; pandoc calls the second
\* executeScript, or returns.
NativeResolved(i, commandResult) ==
  /\ i \in DOMAIN invs
  /\ invs[i].pc = "convert"
  /\ invs' = [invs EXCEPT ![i] =
       IF WritesClipboard(commandResult)
       THEN [@ EXCEPT !.commandResult = <<commandResult>>,
                      !.writeCalls =
                        Append(@, [target |-> WriteTarget(invs[i].injectionTarget),
                                   args |-> <<commandResult.output>>]),
                      !.pc = "write"]
       ELSE [@ EXCEPT !.commandResult = <<commandResult>>, !.pc = "done"]]
  /\ UNCHANGED <<lifecycleVars, page, selCall, selPrev, pandocModule,
                 storageCache, loaded, syncStorage, menu,
                 events, changesLeft, invLeft, clipboard, lastWriter>>

\* A rejected sendNativeMessage that is caught and sent again, once.
NativeRejectedRetries(i) ==
  /\ i \in DOMAIN invs
  /\ invs[i].pc = "convert"
  /\ invs' = [invs EXCEPT ![i] =
       IF Len(invs[i].requests) < 2
       THEN [@ EXCEPT !.requests =
                        Append(@, NativeMessage(invs[i].converterCommand[1], invs[i].input))]
       ELSE [@ EXCEPT !.pc = "failed", !.failure = "convert"]]
  /\ UNCHANGED <<lifecycleVars, page, selCall, selPrev, pandocModule,
                 storageCache, loaded, syncStorage, menu,
                 events, changesLeft, invLeft, clipboard, lastWriter>>

\* sendNativeMessage rejects: the native host cannot be reached.
NativeRejected(i) ==
  /\ i \in DOMAIN invs
  /\ invs[i].pc = "convert"
  /\ invs' = [invs EXCEPT ![i].pc = "failed", ![i].failure = "convert"]
  /\ UNCHANGED <<lifecycleVars, page, selCall, selPrev, pandocModule,
                 storageCache, loaded, syncStorage, menu,
                 events, changesLeft, invLeft, clipboard, lastWriter>>

\* The native host never answers: the promise of sendNativeMessage stays
\* pending for good, and pandoc stays at its second await.
NativeNeverReplies(i) ==
  /\ i \in DOMAIN invs
  /\ invs[i].pc = "convert"
  /\ invs' = [invs EXCEPT ![i].pc = "hung"]
  /\ UNCHANGED <<lifecycleVars, page, selCall, selPrev, pandocModule,
                 storageCache, loaded, syncStorage, menu,
                 events, changesLeft, invLeft, clipboard, lastWriter>>

\* writeTextToClipboard(text) runs in the tab: navigator.clipboard.writeText(text).
WriteResolved(i) ==
  /\ i \in DOMAIN invs
  /\ invs[i].pc = "write"
  /\ LET call == invs[i].writeCalls[Len(invs[i].writeCalls)]
         text == JSToString(call.args[1])
     IN /\ clipboard' = <<text>>
        /\ invs' = [invs EXCEPT ![i].written =
                      Append(@, [tabId |-> call.target.tabId, text |-> text]),
                    ![i].pc = "done"]
  /\ lastWriter' = i
  /\ UNCHANGED <<lifecycleVars, page, selCall, selPrev, pandocModule,
                 storageCache, loaded, syncStorage, menu,
                 events, changesLeft, invLeft>>

\* The second executeScript rejects: the clipboard is not written.
WriteRejected(i) ==
  /\ i \in DOMAIN invs
  /\ invs[i].pc = "write"
  /\ invs' = [invs EXCEPT ![i].pc = "failed", ![i].failure = "write"]
  /\ UNCHANGED <<lifecycleVars, page, selCall, selPrev, pandocModule,
                 storageCache, loaded, syncStorage, menu,
                 events, changesLeft, invLeft, clipboard, lastWriter>>

(* ---------------------------- specifications --------------------------- *)

PandocModules == {"src/pandoc.js", "src/background.js"}

\* The service worker has just started: the cache is empty and
\* chrome.storage.sync.get is pending.
Init ==
  /\ page = DefaultPage
  /\ selCall = <<>>
  /\ pandocModule = "src/background.js"
  /\ storageCache = <<>>
  /\ loaded = FALSE
  /\ syncStorage \in {<<>>} \cup {<<l>> : l \in ConverterLists}
  /\ menu = {}
  /\ events = <<>>
  /\ changesLeft = MaxChanges
  /\ invLeft = MaxCfgInv
  /\ invs = <<>>
  /\ clipboard = <<>>
  /\ lastWriter = 0
  /\ selPrev = <<>>
  /\ backgroundModule = "src/background.js"
  /\ installs = <<>>
  /\ ports = <<>>

\* The triggers and the configuration: every pipeline is followed to the
\* call of pandoc, and its steps are those of SpecPipeline.
Next ==
  \/ \E tabId \in TabIds : onAction(tabId)
  \/ \E item \in menu, click \in MenuClicks, tabId \in TabIds :
       onMenuItemClicked(item.id, click.frameId, click.clickedData, tabId)
  \/ \E areaName \in AreaNames, converters \in ConverterLists :
       StorageSet(areaName, converters)
  \/ StorageLoaded
  \/ onOptionsChange

Spec == Init /\ [][Next]_vars

\* The configuration is loaded and stays as it is; only pipelines run.
InitPipeline ==
  /\ page = DefaultPage
  /\ selCall = <<>>
  /\ pandocModule \in PandocModules
  /\ storageCache \in {<<>>, <<ConvMarkdown>>}
  /\ loaded = TRUE
  /\ syncStorage = <<storageCache>>
  /\ menu = createMenuItems({}, storageCache)
  /\ events = <<>>
  /\ changesLeft = 0
  /\ invLeft = MaxInv
  /\ invs = <<>>
  /\ clipboard = <<>>
  /\ lastWriter = 0
  /\ selPrev = <<>>
  /\ backgroundModule = "src/background.js"
  /\ installs = <<>>
  /\ ports = <<>>

NextPipeline ==
  \/ \E tabId \in TabIds : onAction(tabId)
  \/ \E item \in menu, click \in MenuClicks, tabId \in TabIds :
       onMenuItemClicked(item.id, click.frameId, click.clickedData, tabId)
  \/ \E i \in DOMAIN invs : SelectResolved(i)
  \/ \E i \in DOMAIN invs : SelectRejected(i)
  \/ \E i \in DOMAIN invs : \E commandResult \in CommandResults(i) :
       NativeResolved(i, commandResult)
  \/ \E i \in DOMAIN invs : NativeRejected(i)
  \/ \E i \in DOMAIN invs : WriteResolved(i)
  \/ \E i \in DOMAIN invs : WriteRejected(i)

SpecPipeline == InitPipeline /\ [][NextPipeline]_vars

\* The reply to each await of invocation i: the promise resolves or rejects.
SelectReplies(i) == SelectResolved(i) \/ SelectRejected(i)

NativeReplies(i) ==
  \/ \E commandResult \in CommandResults(i) : NativeResolved(i, commandResult)
  \/ NativeRejected(i)

WriteReplies(i) == WriteResolved(i) \/ WriteRejected(i)

\* SpecPipeline when every promise pandoc awaits is eventually settled.
FairSpecPipeline ==
  /\ SpecPipeline
  /\ \A i \in 1..MaxInv :
       /\ WF_vars(SelectReplies(i))
       /\ WF_vars(NativeReplies(i))
       /\ WF_vars(WriteReplies(i))

\* The configuration is loaded; pipelines run while the configuration changes,
\* and the native host may leave a call unanswered.
InitInFlight ==
  /\ page = DefaultPage
  /\ selCall = <<>>
  /\ selPrev = <<>>
  /\ pandocModule = "src/background.js"
  /\ storageCache = <<ConvMarkdown>>
  /\ loaded = TRUE
  /\ syncStorage = <<storageCache>>
  /\ menu = createMenuItems({}, storageCache)
  /\ events = <<>>
  /\ changesLeft = MaxFlightChanges
  /\ invLeft = MaxInv
  /\ invs = <<>>
  /\ clipboard = <<>>
  /\ lastWriter = 0
  /\ backgroundModule = "src/background.js"
  /\ installs = <<>>
  /\ ports = <<>>

\* The tabs and the storage areas of SpecInFlight.
FlightTabIds == {1}

FlightAreaNames == {"sync"}

\* The menu clicks of SpecInFlight.
FlightMenuClicks == {[clickedData |-> SelectionClickData, frameId |-> 1]}

NextInFlight ==
  \/ \E tabId \in FlightTabIds : onAction(tabId)
  \/ \E item \in menu, click \in FlightMenuClicks, tabId \in FlightTabIds :
       onMenuItemClicked(item.id, click.frameId, click.clickedData, tabId)
  \/ \E areaName \in FlightAreaNames, converters \in ConverterLists :
       StorageSet(areaName, converters)
  \/ onOptionsChange
  \/ \E i \in DOMAIN invs : SelectResolved(i)
  \/ \E i \in DOMAIN invs : SelectRejected(i)
  \/ \E i \in DOMAIN invs : \E commandResult \in CommandResults(i) :
       NativeResolved(i, commandResult)
  \/ \E i \in DOMAIN invs : NativeRejected(i)
  \/ \E i \in DOMAIN invs : NativeNeverReplies(i)
  \/ \E i \in DOMAIN invs : WriteResolved(i)
  \/ \E i \in DOMAIN invs : WriteRejected(i)

SpecInFlight == InitInFlight /\ [][NextInFlight]_vars

\* The service worker has just started after an installation, an update or
\* a restart: the cache is empty, chrome.storage.sync.get is pending, and
\* storage changes of every kind arrive.
InitLifecycle ==
  /\ page = DefaultPage
  /\ selCall = <<>>
  /\ selPrev = <<>>
  /\ pandocModule = "src/background.js"
  /\ storageCache = <<>>
  /\ loaded = FALSE
  /\ syncStorage \in {<<>>} \cup {<<l>> : l \in ConverterLists}
  /\ menu = {}
  /\ events = <<>>
  /\ changesLeft = MaxChanges
  /\ invLeft = 0
  /\ invs = <<>>
  /\ clipboard = <<>>
  /\ lastWriter = 0
  /\ backgroundModule = "src/background.js"
  /\ installs = <<>>
  /\ ports = <<>>

NextLifecycle ==
  \/ StorageLoaded
  \/ \E reason \in InstallReasons : onInstalled(reason)
  \/ FetchResolved
  \/ FetchRejected
  \/ \E areaName \in AllAreaNames, converters \in ConverterLists :
       StorageSet(areaName, converters)
  \/ \E areaName \in AllAreaNames : StorageRemove(areaName)
  \/ \E areaName \in AllAreaNames : StorageSetOther(areaName)
  \/ onOptionsChange

SpecLifecycle == InitLifecycle /\ [][NextLifecycle]_vars

\* Ports connect to the service worker.
InitConnect ==
  /\ page = DefaultPage
  /\ selCall = <<>>
  /\ selPrev = <<>>
  /\ pandocModule = "src/background.js"
  /\ storageCache = <<>>
  /\ loaded = FALSE
  /\ syncStorage = <<>>
  /\ menu = {}
  /\ events = <<>>
  /\ changesLeft = 0
  /\ invLeft = 0
  /\ invs = <<>>
  /\ clipboard = <<>>
  /\ lastWriter = 0
  /\ backgroundModule \in BackgroundModules
  /\ installs = <<>>
  /\ ports = <<>>

NextConnect == \E name \in PortNames : onConnect(name)

SpecConnect == InitConnect /\ [][NextConnect]_vars

\* getClickedElement alone, over every click data and page.
InitSelector ==
  /\ page \in [FrameIds -> PageStates]
  /\ selCall = <<>>
  /\ pandocModule = "src/background.js"
  /\ storageCache = <<>>
  /\ loaded = FALSE
  /\ syncStorage = <<>>
  /\ menu = {}
  /\ events = <<>>
  /\ changesLeft = 0
  /\ invLeft = 0
  /\ invs = <<>>
  /\ clipboard = <<>>
  /\ lastWriter = 0
  /\ selPrev = <<>>
  /\ backgroundModule = "src/background.js"
  /\ installs = <<>>
  /\ ports = <<>>

\* executeScript runs getClickedElement(clickedData) in one frame.
CallSelector(clickedData, frameId) ==
  /\ selCall' = <<[clickedData |-> clickedData, frameId |-> frameId,
                   returned |-> getClickedElement(clickedData, page[frameId])]>>
  /\ selPrev' = IF /\ selCall # <<>>
                   /\ selCall[1].clickedData = clickedData
                   /\ selCall[1].frameId = frameId
                THEN selCall
                ELSE <<>>
  /\ page' = [page EXCEPT ![frameId] = PageAfter(clickedData, page[frameId])]
  /\ UNCHANGED <<lifecycleVars, pandocModule, storageCache, loaded, syncStorage, menu,
                 events, changesLeft, invLeft, invs, clipboard, lastWriter>>

NextSelector ==
  \E clickedData \in ClickContexts \cup {ActionClickData}, frameId \in FrameIds :
    CallSelector(clickedData, frameId)

SpecSelector == InitSelector /\ [][NextSelector]_vars

(* ------------------------------- claims -------------------------------- *)

HasResult(v) == v.commandResult # <<>>

Status(v) == v.commandResult[1].status

Output(v) == v.commandResult[1].output

\* C1: in every invocation whose external process call returned a status
\* other than 0, the clipboard-write injection is neither issued nor run.
C1_NoWriteOnFailure ==
  \A i \in DOMAIN invs :
    (HasResult(invs[i]) /\ Status(invs[i]) # 0) =>
      /\ invs[i].writeCalls = <<>>
      /\ invs[i].written = <<>>
      /\ invs[i].pc = "done"

\* C2: in every invocation whose external process call returned status 0,
\* the clipboard-write injection is issued exactly once, into the originating
\* tab, with the output of that result; when the invocation has completed the
\* clipboard was written exactly once, with exactly that output, and it holds
\* that output for as long as no other invocation writes.
C2_WrittenOnceOnSuccess ==
  \A i \in DOMAIN invs :
    LET v == invs[i] IN
    (HasResult(v) /\ Status(v) = 0) =>
      /\ v.pc \in {"write", "done", "failed"}
      /\ v.writeCalls =
           <<[target |-> [tabId |-> v.trigger.tabId], args |-> <<Output(v)>>]>>
      /\ v.pc = "write" => v.written = <<>>
      /\ v.pc = "failed" => v.written = <<>> /\ v.failure = "write"
      /\ v.pc = "done" =>
           v.written = <<[tabId |-> v.trigger.tabId, text |-> Output(v).val]>>
      /\ lastWriter = i => clipboard = <<Output(v).val>>

\* C2 witness: an invocation with status 0 has completed and its output is
\* on the clipboard.
C2_Witness ==
  \E i \in DOMAIN invs :
    /\ HasResult(invs[i]) /\ Status(invs[i]) = 0
    /\ invs[i].pc = "done"
    /\ invs[i].trigger.tabId = 2
    /\ clipboard = <<OutputText(i)>>

\* The state part of C3: the steps come in the order select, convert, write,
\* and a failed step leaves no trace of a later one.
C3_Sequenced ==
  \A i \in DOMAIN invs :
    LET v == invs[i] IN
    /\ v.pc = "select" => v.requests = <<>> /\ v.commandResult = <<>>
    /\ v.requests # <<>> => v.injectionResults # <<>>
    /\ v.writeCalls # <<>> => HasResult(v) /\ Len(v.requests) = 1
    /\ v.written # <<>> => v.writeCalls # <<>>
    /\ v.failure = "select" =>
         /\ v.pc = "failed"
         /\ v.requests = <<>> /\ v.writeCalls = <<>> /\ v.written = <<>>
    /\ v.failure = "convert" =>
         /\ v.pc = "failed"
         /\ v.commandResult = <<>> /\ v.writeCalls = <<>> /\ v.written = <<>>

\* The action part of C3: an invocation that has failed does nothing more,
\* and the clipboard changes only by the write step of an invocation that is
\* at that step.
C3_StopsAtFailure ==
  /\ \A i \in DOMAIN invs : invs[i].pc = "failed" => invs'[i] = invs[i]
  /\ clipboard' # clipboard =>
       \E i \in DOMAIN invs : invs[i].pc = "write" /\ invs'[i].pc = "done"

\* C3: one invocation's steps are sequenced select -> convert -> write and it
\* stops at the first failing step: after a failed selector injection there
\* is no external process call and no clipboard write, after a failed
\* external process call there is no clipboard write.
C3_StopAtFirstFailure == []C3_Sequenced /\ [][C3_StopsAtFailure]_vars

\* C3 witness: one invocation failed at the selector injection and another at
\* the external process call.
C3_Witness ==
  \E i, j \in DOMAIN invs :
    /\ invs[i].failure = "select"
    /\ invs[j].failure = "convert" /\ Len(invs[j].requests) = 1

\* The frames in which getClickedElement matched no case.
NoValueFrames(v) ==
  {k \in DOMAIN v.injectionResults :
     getClickedElement(v.clickedData,
                       page[TargetFrames(v.injectionTarget)[k]]).branch = "none"}

RECURSIVE JoinExcept(_, _, _)
\* The concatenation of results k..Len(results), those of the frames in skip
\* left out.
JoinExcept(results, k, skip) ==
  IF k > Len(results) THEN <<>>
  ELSE (IF k \in skip THEN <<>> ELSE JSToString(results[k]))
         \o JoinExcept(results, k + 1, skip)

\* C5: a frame in which the selector matched no case contributes the empty
\* string: the input is the concatenation of the other frames' results.
C5_NoValueContributesEmpty ==
  \A i \in DOMAIN invs :
    invs[i].injectionResults # <<>> =>
      invs[i].input = JoinExcept(invs[i].injectionResults, 1, NoValueFrames(invs[i]))

Priority ==
  <<"linkImage", "linkSelection", "video", "audio", "image", "selection", "page">>

\* The first branch in priority order whose condition holds, "none" when no
\* condition holds.
FirstMatch(clickedData) ==
  IF \E k \in DOMAIN Priority : CaseMatches(Priority[k], clickedData)
  THEN Priority[CHOOSE k \in DOMAIN Priority :
         /\ CaseMatches(Priority[k], clickedData)
         /\ \A j \in 1..(k - 1) : ~CaseMatches(Priority[j], clickedData)]
  ELSE "none"

\* The branches a call took: the one it returned from, if any.
BranchesTaken(call) == {b \in DOMAIN Priority : Priority[b] = call.returned.branch}

\* C4 as stated: for every click data the selector takes exactly one branch,
\* the first matching one in the priority order.
C4_ExactlyOneBranch ==
  selCall # <<>> =>
    /\ Cardinality(BranchesTaken(selCall[1])) = 1
    /\ selCall[1].returned.branch = FirstMatch(selCall[1].clickedData)

\* C4 as amended: the selector takes at most one branch, the first matching
\* one in the priority order; it takes exactly one when the click data has a
\* media type, a selection text or a page URL, and none (returning no value)
\* otherwise, that is for click data with only a link URL or with no field.
C4_FirstMatchingBranch ==
  selCall # <<>> =>
    LET clickedData == selCall[1].clickedData
        returned == selCall[1].returned
        discriminated ==
          \/ clickedData.mediaType # Absent
          \/ clickedData.selectionText # Absent
          \/ clickedData.pageUrl # Absent
    IN /\ Cardinality(BranchesTaken(selCall[1])) <= 1
       /\ returned.branch = FirstMatch(clickedData)
       /\ discriminated <=> Cardinality(BranchesTaken(selCall[1])) = 1
       /\ ~discriminated <=> returned.result = Undefined
       /\ (clickedData.linkUrl # Absent /\ clickedData.mediaType = "video"
             /\ clickedData.selectionText = Absent)
            => returned.branch = "video"
       /\ (clickedData.linkUrl # Absent /\ clickedData.selectionText # Absent
             /\ clickedData.mediaType = "image")
            => returned.branch = "linkImage"

\* C4 witness: click data with a link, a selection and media type image took
\* the link+image branch.
C4_Witness ==
  /\ selCall # <<>>
  /\ selCall[1].clickedData.linkUrl # Absent
  /\ selCall[1].clickedData.selectionText # Absent
  /\ selCall[1].clickedData.mediaType = "image"
  /\ selCall[1].returned.branch = "linkImage"
  /\ selCall[1].returned.result = Str(OuterHTMLAnchorImage(LinkUrl, SrcUrl))

\* The items of a menu that has exactly one entry per converter of the list:
\* the id is the index and the title is built from the name.
MenuOf(converters) ==
  {[id |-> NumberToString(k - 1), title |-> <<"Copy as ", converters[k].name>>] :
     k \in DOMAIN converters}

\* C7: each trigger starts exactly one invocation; onAction gives it the
\* converter at index 0 of the cache, all frames of the tab and the
\* selection-only click data; onMenuItemClicked gives it the converter at the
\* index the menu item's id names, in the cache as it is at the click, the
\* frame of the click alone and the click data of the click.
C7_TriggerStartsOne ==
  invLeft' # invLeft =>
    /\ invLeft' = invLeft - 1
    /\ Len(invs') = Len(invs) + 1
    /\ SubSeq(invs', 1, Len(invs)) = invs
    /\ LET v == invs'[Len(invs')] IN
       /\ v.pc = "select" /\ v.requests = <<>> /\ v.writeCalls = <<>>
       /\ v.trigger.handler \in {"onAction", "onMenuItemClicked"}
       /\ v.trigger.handler = "onAction" =>
            /\ v.converterCommand = ArrayGet(storageCache, 0)
            /\ v.injectionTarget =
                 [tabId |-> v.trigger.tabId, allFrames |-> TRUE, frameIds |-> <<>>]
            /\ TargetFrames(v.injectionTarget) = <<0, 1>>
            /\ v.clickedData = ActionClickData
       /\ v.trigger.handler = "onMenuItemClicked" =>
            /\ \E item \in menu : item.id = v.trigger.menuItemId
            /\ \E index \in 0..9 :
                 /\ NumberToString(index) = v.trigger.menuItemId
                 /\ v.converterCommand = ArrayGet(storageCache, index)
            /\ v.injectionTarget =
                 [tabId |-> v.trigger.tabId, allFrames |-> FALSE,
                  frameIds |-> <<v.trigger.frameId>>]
            /\ TargetFrames(v.injectionTarget) = <<v.trigger.frameId>>
            /\ v.clickedData \in MenuClickContexts

C7_TriggerConverterAndTarget == [][C7_TriggerStartsOne]_vars

\* C7 witness: a click on the menu entry with id 1 started an invocation with
\* the second converter of the cache, in frame 1 of tab 2.
C7_Witness ==
  \E i \in DOMAIN invs :
    /\ invs[i].trigger.handler = "onMenuItemClicked"
    /\ invs[i].trigger.menuItemId = <<"1">>
    /\ invs[i].converterCommand = <<ConvMarkdown>>
    /\ invs[i].injectionTarget.frameIds = <<1>>
    /\ invs[i].injectionTarget.tabId = 2
    /\ storageCache = <<ConvOrg, ConvMarkdown>>

\* C8: every invocation started by a trigger has a converter, and its command
\* is not empty.
C8_ConverterExists ==
  \A i \in DOMAIN invs :
    /\ invs[i].converterCommand # <<>>
    /\ invs[i].converterCommand[1].command # ""

\* The event dispatched next carries a new converter list in area local or sync.
CarriesNewList(event) ==
  event.areaName \in {"local", "sync"} /\ event.hasKey /\ event.newValue # <<>>

\* C9, for one dispatch of a change event that carries a new list: the cache
\* is that list and the menu is rebuilt from it.
C9_Rebuilt ==
  (events # <<>> /\ events' = Tail(events) /\ CarriesNewList(Head(events))) =>
    /\ storageCache' = Head(events).newValue[1]
    /\ menu' = MenuOf(storageCache')
    /\ Cardinality(menu') = Len(storageCache')

\* C9: after onOptionsChange has handled a change event carrying a new
\* converter list, the cache holds that list and the menu holds exactly one
\* entry per converter, its id the index and its title built from the name,
\* with no entry of an earlier list.
C9_CacheAndMenuFollowChange == [][C9_Rebuilt]_vars

\* C9 witness: every change has been handled, the last one a one-converter
\* list stored in area local after a two-converter list, and the menu holds
\* the one entry of that list.
C9_Witness ==
  /\ events = <<>>
  /\ changesLeft = 0
  /\ ~loaded
  /\ syncStorage = <<<<ConvOrg, ConvMarkdown>>>>
  /\ storageCache = <<ConvMarkdown>>
  /\ menu = {[id |-> <<"0">>, title |-> <<"Copy as ", "Markdown">>]}

\* C10: invocations in flight together are independent: each sends the input
\* built from its own frames' results, each write carries the output of the
\* invocation's own result and of no other, and the clipboard holds the output
\* of the successful invocation whose write completed last.
C10_Independent ==
  /\ \A i \in DOMAIN invs :
       LET v == invs[i] IN
       /\ \A r \in DOMAIN v.requests :
            v.requests[r].input = JoinExcept(v.injectionResults, 1, {})
       /\ \A w \in DOMAIN v.writeCalls : v.writeCalls[w].args = <<Output(v)>>
       /\ \A w \in DOMAIN v.written :
            /\ v.written[w].text = JSToString(Output(v))
            /\ \A j \in DOMAIN invs : j # i => v.written[w].text # OutputText(j)
  /\ lastWriter = 0 => clipboard = <<>>
  /\ lastWriter # 0 =>
       /\ lastWriter \in DOMAIN invs
       /\ HasResult(invs[lastWriter]) /\ Status(invs[lastWriter]) = 0
       /\ clipboard = <<Output(invs[lastWriter]).val>>

RECURSIVE Serialized(_)
\* The serialization of fragments 1..N one after the other, defined from the
\* last fragment back.
Serialized(fragments) ==
  IF fragments = <<>> THEN <<>>
  ELSE Serialized(SubSeq(fragments, 1, Len(fragments) - 1)) \o fragments[Len(fragments)]

\* C15: a call that takes the selection branch in a frame whose selection has
\* N ranges returns the serialization of the contents of ranges 0..N-1 in
\* that order, each range once; with N = 0 it returns the empty string.
C15_SelectionInRangeOrder ==
  (selCall # <<>> /\ selCall[1].returned.branch = "selection") =>
    LET ranges == page[selCall[1].frameId].ranges
        html == selCall[1].returned.result
    IN /\ html.type = "string"
       /\ html.val = Serialized(ranges)
       /\ Len(ranges) = 0 => html.val = <<>>
       /\ Len(ranges) = 1 => html.val = ranges[1]
       /\ Len(ranges) >= 2 =>
            /\ SubSeq(html.val, 1, Len(ranges[1])) = ranges[1]
            /\ SubSeq(html.val, Len(ranges[1]) + 1, Len(ranges[1]) + Len(ranges[2]))
                 = ranges[2]

\* C15 witness: the selection branch was taken in a frame whose selection has
\* two different ranges, and the output holds the first range's contents
\* before the second's.
C15_Witness ==
  /\ selCall # <<>>
  /\ selCall[1].returned.branch = "selection"
  /\ page[selCall[1].frameId].ranges = <<<<"y">>, <<"<b>", "x", "</b>">>>>
  /\ selCall[1].returned.result = Str(<<"y", "<b>", "x", "</b>">>)

\* The state part of C16: a call that repeats the call before it returned
\* what that call returned.
C16_SameOutput ==
  selPrev # <<>> =>
    /\ selPrev[1].clickedData = selCall[1].clickedData
    /\ selPrev[1].frameId = selCall[1].frameId
    /\ selCall[1].returned = selPrev[1].returned

\* C16: the selector is idempotent and leaves the page as it was: calling it
\* twice in a row with the same click data in the same frame returns the same
\* output both times, and no call changes the document or the selection of
\* any frame.
C16_IdempotentPageUnchanged == []C16_SameOutput /\ [][page' = page]_vars

\* C16 witness: the selection branch was taken twice in a row in a frame
\* with two ranges.
C16_Witness ==
  /\ selPrev # <<>>
  /\ selCall[1].returned.branch = "selection"
  /\ Len(page[selCall[1].frameId].ranges) = 2
  /\ selCall[1].returned.result.val # <<>>
  /\ selPrev[1].returned = selCall[1].returned

\* The state part of C12: at most one request per invocation, exactly one
\* once the invocation has reached the external process call, and the request
\* holds the converter's command, its arguments, the input and output = true.
C12_OneRequest ==
  \A i \in DOMAIN invs :
    LET v == invs[i] IN
    /\ Len(v.requests) <= 1
    /\ (v.pc \in {"convert", "write", "done"} \/ v.failure \in {"convert", "write"})
         => Len(v.requests) = 1
    /\ \A r \in DOMAIN v.requests :
         /\ v.converterCommand # <<>>
         /\ DOMAIN v.requests[r] = {"command", "args", "input", "output"}
         /\ v.requests[r].command = v.converterCommand[1].command
         /\ v.requests[r].args = v.converterCommand[1].args
         /\ \E k \in DOMAIN storageCache :
              /\ v.requests[r].command = storageCache[k].command
              /\ v.requests[r].args = storageCache[k].args
         /\ v.requests[r].input = v.input
         /\ v.requests[r].output = TRUE

\* The action part of C12: the request an invocation has issued stays the
\* only one, whatever reply follows.
C12_NeverRepeated ==
  \A i \in DOMAIN invs :
    invs[i].requests # <<>> => invs'[i].requests = invs[i].requests

\* C12: every invocation issues a single external process call and never
\* repeats it, whatever the status or the failure; the request carries the
\* converter's command, its argument list in order and unchanged, the
\* concatenated input and output = true.
C12_SingleExternalCall == []C12_OneRequest /\ [][C12_NeverRepeated]_vars

\* C12 witness: an invocation whose call was answered with status 1 and one
\* whose call was rejected have each issued one request, with the arguments
\* of the Markdown converter.
C12_Witness ==
  \E i, j \in DOMAIN invs :
    /\ HasResult(invs[i]) /\ Status(invs[i]) = 1
    /\ invs[j].failure = "convert"
    /\ invs[i].requests =
         <<[command |-> "pandoc", args |-> <<"-f", "html", "-t", "markdown">>,
            input |-> invs[i].input, output |-> TRUE]>>
    /\ Len(invs[j].requests) = 1

\* The terminal states of an invocation: clipboard written after status 0,
\* finished without writing after another status, or failed at a step.
Terminal(v) ==
  \/ /\ v.pc = "done" /\ HasResult(v) /\ Status(v) = 0
     /\ v.written # <<>>
  \/ /\ v.pc = "done" /\ HasResult(v) /\ Status(v) # 0
     /\ v.writeCalls = <<>> /\ v.written = <<>>
  \/ /\ v.pc = "failed" /\ v.failure \in {"select", "converterCommand", "convert", "write"}

\* The steps of pandoc: from each await to the next one, to the end or to a
\* failure.
StepEdges ==
  {<<"select", "convert">>, <<"select", "failed">>,
   <<"convert", "write">>, <<"convert", "done">>, <<"convert", "failed">>,
   <<"write", "done">>, <<"write", "failed">>}

\* The action part of C14: no invocation is dropped, and an invocation
\* leaves a step only by that step's reply.
C14_NoCancel ==
  /\ Len(invs') >= Len(invs)
  /\ \A i \in DOMAIN invs :
       invs'[i].pc # invs[i].pc => <<invs[i].pc, invs'[i].pc>> \in StepEdges

\* The invocation that has ended is in one of the three terminal states.
C14_EndsTerminal ==
  \A i \in DOMAIN invs : invs[i].pc \in {"done", "failed"} => Terminal(invs[i])

\* C14: when every I/O step eventually replies or reports failure, every
\* started invocation eventually reaches a terminal state: clipboard written
\* (status 0), finished without writing (status not 0), or failed at a step;
\* nothing cancels an invocation between steps.
C14_EveryInvocationEnds ==
  /\ []C14_EndsTerminal
  /\ [][C14_NoCancel]_vars
  /\ \A i \in 1..MaxInv :
       [](i \in DOMAIN invs => <>(i \in DOMAIN invs /\ Terminal(invs[i])))

\* The index a trigger reads the cache at.
TriggerIndex(trigger) ==
  IF trigger.handler = "onAction" THEN 0 ELSE parseInt(trigger.menuItemId)

\* The state part of C11: the command and the arguments an invocation sends
\* are those of the converter record it was started with.
C11_SendsRecordOfTrigger ==
  \A i \in DOMAIN invs :
    \A r \in DOMAIN invs[i].requests :
      /\ invs[i].converterCommand # <<>>
      /\ invs[i].requests[r].command = invs[i].converterCommand[1].command
      /\ invs[i].requests[r].args = invs[i].converterCommand[1].args

\* The action part of C11: a step that starts or advances an invocation
\* leaves the cache, the menu and the stored configuration as they were; a
\* step that changes the cache or the menu leaves every invocation as it
\* was; the record of an invocation is the cache's at the trigger and stays.
C11_Frame ==
  /\ invs' # invs =>
       /\ storageCache' = storageCache /\ menu' = menu
       /\ syncStorage' = syncStorage /\ events' = events
  /\ (storageCache' # storageCache \/ menu' # menu) => invs' = invs
  /\ \A i \in DOMAIN invs :
       /\ invs'[i].converterCommand = invs[i].converterCommand
       /\ invs[i].requests # <<>> => invs'[i].requests = invs[i].requests
  /\ Len(invs') > Len(invs) =>
       invs'[Len(invs')].converterCommand =
         ArrayGet(storageCache, TriggerIndex(invs'[Len(invs')].trigger))

\* C11: invocations share no mutable state but the configuration cache,
\* which they only read: no step of pandoc changes the cache or the menu, and
\* a configuration change that arrives while an invocation is in flight does
\* not change the command and the arguments the invocation sends, which are
\* those of the converter record read when the trigger fired.
C11_CacheReadOnly == []C11_SendsRecordOfTrigger /\ [][C11_Frame]_vars

\* C11 witness: the toolbar button's invocation is waiting for the answer to
\* a request made with the Markdown converter it was started with, while the
\* cache now holds the Org converter first and the menu has two entries.
C11_Witness ==
  \E i \in DOMAIN invs :
    /\ invs[i].trigger.handler = "onAction"
    /\ invs[i].pc = "convert"
    /\ invs[i].requests[1].args = ConvMarkdown.args
    /\ storageCache = <<ConvOrg, ConvMarkdown>>
    /\ Cardinality(menu) = 2

\* An invocation whose external process call is left unanswered.
IsHung(v) == v.pc = "hung"

\* The invocation left without an answer has written nothing.
C13_HungNeverWrites ==
  \A i \in DOMAIN invs :
    IsHung(invs[i]) =>
      /\ invs[i].commandResult = <<>>
      /\ invs[i].writeCalls = <<>> /\ invs[i].written = <<>>
      /\ lastWriter # i

\* While an invocation is left without an answer, every trigger the budgets
\* allow is handled and every other invocation can take its next step.
C13_OthersHandled ==
  (\E i \in DOMAIN invs : IsHung(invs[i])) =>
    /\ invLeft > 0 => \A tabId \in FlightTabIds : ENABLED onAction(tabId)
    /\ invLeft > 0 =>
         \A item \in menu, click \in FlightMenuClicks, tabId \in FlightTabIds :
           ENABLED onMenuItemClicked(item.id, click.frameId, click.clickedData, tabId)
    /\ events # <<>> => ENABLED onOptionsChange
    /\ \A j \in DOMAIN invs :
         /\ invs[j].pc = "select" => ENABLED SelectResolved(j)
         /\ invs[j].pc = "convert" =>
              \A commandResult \in CommandResults(j) :
                ENABLED NativeResolved(j, commandResult)
         /\ invs[j].pc = "write" => ENABLED WriteResolved(j)

\* The unanswered invocation stays as it is.
C13_HungStays ==
  \A i \in DOMAIN invs : IsHung(invs[i]) => invs'[i] = invs[i]

\* C13: when the external process call of one invocation never replies, only
\* that invocation is blocked: it never writes the clipboard, every other
\* trigger (toolbar button, menu click, configuration change) is still
\* handled, and every other invocation, started before or after it, can
\* take each of its steps, up to its clipboard write.
C13_HangBlocksOnlyItself ==
  /\ []C13_HungNeverWrites
  /\ []C13_OthersHandled
  /\ [][C13_HungStays]_vars

\* C13 witness: the first invocation is left without an answer; the second,
\* started by a menu click, has written its output to the clipboard, and a
\* configuration change has been handled.
C13_Witness ==
  /\ Len(invs) = 2
  /\ IsHung(invs[1])
  /\ invs[2].trigger.handler = "onMenuItemClicked"
  /\ invs[2].pc = "done" /\ invs[2].written # <<>>
  /\ clipboard = <<OutputText(2)>>
  /\ events = <<>> /\ changesLeft = 0
  /\ storageCache = <<ConvOrg, ConvMarkdown>>

\* C17: an update never loses the user's configuration: once onInstalled
\* with reason 'update' has finished, the converters in sync storage are the
\* converters that were stored before the handler wrote.
C17_UpdateKeepsConfiguration ==
  \A k \in DOMAIN installs :
    (installs[k].reason = "update" /\ installs[k].pc = "done"
       /\ installs[k].before # <<>>)
      => installs[k].wrote = installs[k].before

\* The event dispatched next carries a new converter list in area local or
\* sync, as C18 puts it.
GivenNewList(event) ==
  /\ event.areaName \in {"local", "sync"}
  /\ event.hasKey
  /\ event.newValue # <<>>

\* C18, for one dispatch: an event of another area, without a new value or
\* without the key converters leaves the cache and the menu as they were.
C18_NothingChanges ==
  (events # <<>> /\ events' = Tail(events) /\ ~GivenNewList(Head(events))) =>
    /\ storageCache' = storageCache
    /\ menu' = menu

\* C18: onOptionsChange changes nothing unless it is given a new converter
\* list in area local or sync: an event of any other area, an event whose
\* converters entry has no new value and an event that does not concern
\* converters each leave the cache and the menu entries as they were.
C18_OnlyNewListChanges == [][C18_NothingChanges]_vars

\* C18 witness: the one storage write was the removal of converters from
\* area sync; its event has been handled and the cache and the menu still
\* hold the two converters loaded and installed before.
C18_Witness ==
  /\ changesLeft = MaxChanges - 1
  /\ events = <<>>
  /\ syncStorage = <<>>
  /\ installs # <<>> /\ installs[1].reason = "chrome_update"
  /\ storageCache = <<ConvOrg, ConvMarkdown>>
  /\ menu = MenuOf(storageCache)

\* C19: a port named 'options' or 'manual' is handed to the corresponding
\* worker and receives no error message from onConnect; a port with any other
\* name is handed to no worker and receives exactly one message of type
\* 'error' that names the unknown connection.
C19_PortDispatch ==
  \A k \in DOMAIN ports :
    LET port == ports[k] IN
    /\ port.name = "options" => port.worker = "optionsWorker" /\ port.messages = <<>>
    /\ port.name = "manual" => port.worker = "manualWorker" /\ port.messages = <<>>
    /\ port.name \notin {"options", "manual"} =>
         /\ port.worker = "none"
         /\ Len(port.messages) = 1
         /\ port.messages[1].type = "error"
         /\ port.messages[1].message[Len(port.messages[1].message)] = port.name

====
